---- MODULE Spec2Model ----
(***************************************************************************)
(* Model of ryzen-reader (src/src/lib.rs): per-core register handles        *)
(* (Core), construction of the sampling engine (CpuInfo::new), the          *)
(* two-pass differential read (CpuInfo::read / read_raw) and the snapshot   *)
(* views (CpuPower::cores / packages).                                      *)
(*                                                                          *)
(* Number representation.  TLC integers are 32 bits wide, while the code    *)
(* works on u64 register values, u64 file offsets (0xC0010299 > 2^31) and   *)
(* f64.  An unsigned integer is therefore the SET OF ITS ONE-BITS: the      *)
(* value of S is the sum of 2^i over i \in S.  An f64 is a sign and a       *)
(* magnitude of the same kind whose bit positions may be negative           *)
(* (2^-n is {-n}); every f64 operation rounds its exact result to 53        *)
(* significant bits, ties to even, as IEEE-754 binary64 does.  All values   *)
(* that occur lie between 2^-31 and 2^71, far inside the exponent range of  *)
(* binary64, so neither overflow nor subnormals arise.                      *)
(***************************************************************************)
EXTENDS Integers, Sequences, FiniteSets, TLC

----------------------------------------------------------------------------
(* Unsigned arithmetic on bit sets *)

MaxOf(S) == CHOOSE x \in S : \A y \in S : y <= x

MinOf(S) == CHOOSE x \in S : \A y \in S : x <= y

Shift(A, n) == {b + n : b \in A}

RECURSIVE Carry(_, _)
\* X + 2^b
Carry(X, b) == IF b \in X THEN Carry(X \ {b}, b + 1) ELSE X \cup {b}

RECURSIVE Borrow(_, _)
\* X - 2^b, for 2^b <= X
Borrow(X, b) == IF b \in X THEN X \ {b} ELSE Borrow(X \cup {b}, b + 1)

RECURSIVE AddFrom(_, _, _, _, _)
\* bits b and up of A + B, given the carry into bit b; no bit above hi is
\* in both operands
AddFrom(A, B, b, hi, carry) ==
    IF b > hi
    THEN IF carry
         THEN Carry({x \in A \cup B : x >= b}, b)
         ELSE {x \in A \cup B : x >= b}
    ELSE LET x == b \in A
             y == b \in B
             sum == (x /= y) /= carry
             cout == (x /\ y) \/ (x /\ carry) \/ (y /\ carry)
         IN (IF sum THEN {b} ELSE {}) \cup AddFrom(A, B, b + 1, hi, cout)

\* A + B: below the bits the operands share the sum is their union, on
\* them it is the full adder's, above them the carry ripples
Add(A, B) ==
    IF A = {} THEN B
    ELSE IF B = {} THEN A
    ELSE LET lo == IF MinOf(A) >= MinOf(B) THEN MinOf(A) ELSE MinOf(B)
             hi == IF MaxOf(A) <= MaxOf(B) THEN MaxOf(A) ELSE MaxOf(B)
         IN {x \in A \cup B : x < lo} \cup AddFrom(A, B, lo, hi, FALSE)

RECURSIVE SubFrom(_, _, _, _, _)
\* bits b and up of A - B, given the borrow from bit b; B has no bit above hi
SubFrom(A, B, b, hi, borrow) ==
    IF b > hi
    THEN IF borrow
         THEN Borrow({x \in A : x >= b}, b)
         ELSE {x \in A : x >= b}
    ELSE LET x == b \in A
             y == b \in B
             diff == (x /= y) /= borrow
             bout == (~x /\ y) \/ (~x /\ borrow) \/ (y /\ borrow)
         IN (IF diff THEN {b} ELSE {}) \cup SubFrom(A, B, b + 1, hi, bout)

\* A < B
Less(A, B) == A /= B /\ MaxOf((A \ B) \cup (B \ A)) \in B

\* A - B, for B <= A
Sub(A, B) ==
    IF B = {} THEN A
    ELSE {x \in A : x < MinOf(B)} \cup SubFrom(A, B, MinOf(B), MaxOf(B), FALSE)

RECURSIVE Times(_, _)
\* A * B
Times(A, B) ==
    IF B = {} THEN {}
    ELSE LET b == MaxOf(B) IN Add(Shift(A, b), Times(A, B \ {b}))

RECURSIVE NatToBits(_)
NatToBits(n) ==
    IF n = 0 THEN {}
    ELSE (IF n % 2 = 1 THEN {0} ELSE {}) \cup Shift(NatToBits(n \div 2), 1)

RECURSIVE BitsToNat(_)
\* only used on values below 2^31
BitsToNat(A) ==
    IF A = {} THEN 0
    ELSE LET b == MaxOf(A) IN 2 ^ b + BitsToNat(A \ {b})

----------------------------------------------------------------------------
(* f64 *)

\* significand width of binary64
F64_MANTISSA_DIGITS == 53

\* round a magnitude to F64_MANTISSA_DIGITS significant bits, ties to even
RoundMag(M) ==
    IF M = {} THEN {}
    ELSE LET cut == MaxOf(M) - (F64_MANTISSA_DIGITS - 1)
             kept == {b \in M : b >= cut}
             guard == (cut - 1) \in M
             sticky == \E b \in M : b < cut - 1
             up == guard /\ (sticky \/ cut \in M)
         IN IF up THEN Add(kept, {cut}) ELSE kept

F64(neg, mag) == [neg |-> neg /\ mag /= {}, mag |-> mag]

\* `x as f64` for x: u64
U64AsF64(x) == F64(FALSE, RoundMag(x))

\* x * y
FMul(x, y) == F64(x.neg /= y.neg, RoundMag(Times(x.mag, y.mag)))

\* x - y for x, y >= 0 (the only subtractions of the code, lib.rs:204-205,
\* are between products of unsigned values and a positive unit)
FSub(x, y) ==
    IF Less(x.mag, y.mag)
    THEN F64(TRUE, RoundMag(Sub(y.mag, x.mag)))
    ELSE F64(FALSE, RoundMag(Sub(x.mag, y.mag)))

\* 0.5f64.powi(n), n >= 0
HalfPowi(n) == F64(FALSE, {-n})

\* the literal 100.0
F100 == F64(FALSE, {6, 5, 2})

FZero == F64(FALSE, {})

FOne == F64(FALSE, {0})

\* x < y on f64
FLess(x, y) ==
    IF x.neg /= y.neg THEN x.neg
    ELSE IF x.neg THEN Less(y.mag, x.mag) ELSE Less(x.mag, y.mag)

----------------------------------------------------------------------------
(* Constants of lib.rs *)

\* 0xF0000
AMD_TIME_UNIT_MASK == {16, 17, 18, 19}

\* mutant: the energy field taken four bits wide, like the other two (0xF00)
AMD_ENERGY_UNIT_MASK_nibble == {8, 9, 10, 11}

\* 0x1F00
AMD_ENERGY_UNIT_MASK == {8, 9, 10, 11, 12}

\* 0xF
AMD_POWER_UNIT_MASK == {0, 1, 2, 3}

\* the ceiling of the enumeration loop (1024 in lib.rs; reduced so that the
\* model reaches the ceiling)
MAX_CPUS == 3

\* MsrValue::PowerUnit = 0xC0010299
PowerUnit == {31, 30, 16, 9, 7, 4, 3, 0}

\* MsrValue::CoreEnergy = 0xC001029A
CoreEnergy == {31, 30, 16, 9, 7, 4, 3, 1}

\* MsrValue::PackageEnergy = 0xC001029B
PackageEnergy == {31, 30, 16, 9, 7, 4, 3, 1, 0}

\* size_of::<u64>()
SIZE_OF_U64 == 8

\* the length of the topology buffer, [0; 4]
PACKAGE_BUF_LEN == 4

Ok(v) == [ok |-> TRUE, val |-> v]

Err(e) == [ok |-> FALSE, err |-> e]

\* impl From<std::io::Error> for Error, on the error's kind
FromIoError(kind) ==
    CASE kind = "PermissionDenied" -> "PermissionDenied"
      [] kind = "NotFound" -> "CoreNotFound"
      [] OTHER -> "IO"

----------------------------------------------------------------------------
(* Core::open *)

\* characters of a topology attribute; NUL is the byte 0 and BADBYTE a byte
\* that is not valid UTF-8
NUL == "NUL"

BADBYTE == "0xFF"

Digits == <<"0", "1", "2", "3", "4", "5", "6", "7", "8", "9">>

IsDigit(c) == \E d \in 1..10 : Digits[d] = c

DigitVal(c) == (CHOOSE d \in 1..10 : Digits[d] = c) - 1

\* char::is_whitespace on the characters modelled
IsWhitespace(c) == c \in {" ", "\n", "\t"}

\* Read::read into buf of a source holding `avail`, of which the source
\* delivers n items (n <= Len(avail), n <= Len(buf)): the first n items of
\* buf are overwritten, the others keep their value, and n (which both
\* callers drop) is not returned
ReadInto(buf, avail, n) ==
    [j \in 1..Len(buf) |-> IF j <= n THEN avail[j] ELSE buf[j]]

\* str::from_utf8(&data) succeeds
IsUtf8(data) == \A j \in 1..Len(data) : data[j] /= BADBYTE

RECURSIVE TrimEndMatches(_, _)
\* str::trim_end_matches(c)
TrimEndMatches(s, c) ==
    IF s /= <<>> /\ s[Len(s)] = c
    THEN TrimEndMatches(SubSeq(s, 1, Len(s) - 1), c)
    ELSE s

RECURSIVE TrimStart(_)
TrimStart(s) ==
    IF s /= <<>> /\ IsWhitespace(s[1]) THEN TrimStart(Tail(s)) ELSE s

RECURSIVE TrimEnd(_)
TrimEnd(s) ==
    IF s /= <<>> /\ IsWhitespace(s[Len(s)])
    THEN TrimEnd(SubSeq(s, 1, Len(s) - 1))
    ELSE s

\* str::trim: leading and trailing whitespace
Trim(s) == TrimEnd(TrimStart(s))

RECURSIVE DigitsValue(_)
DigitsValue(s) ==
    IF s = <<>> THEN 0
    ELSE 10 * DigitsValue(SubSeq(s, 1, Len(s) - 1)) + DigitVal(s[Len(s)])

\* str::parse::<u32>: an optional '+', then one or more decimal digits; at
\* most PACKAGE_BUF_LEN characters reach it, so the value is below 2^32
ParseU32(s) ==
    LET body == IF s /= <<>> /\ s[1] = "+" THEN Tail(s) ELSE s
    IN IF body /= <<>> /\ \A j \in 1..Len(body) : IsDigit(body[j])
       THEN Ok(DigitsValue(body))
       ELSE Err("InvalidPackage")

Min(a, b) == IF a <= b THEN a ELSE b

\* lib.rs:61-66, on the buffer the read filled
ParsePackage(data) ==
    IF ~IsUtf8(data) THEN Err("InvalidPackage")
    ELSE ParseU32(Trim(TrimEndMatches(data, NUL)))

\* Core::open(cpu_id).  topo = [open, read, content]: the outcome of opening
\* and of reading the topology attribute ("ok" or an io::ErrorKind) and the
\* attribute's content; msr: the outcome of opening /dev/cpu/N/msr.  A read
\* of the attribute delivers all of it that fits the buffer.  The Core is
\* [dev, package, pos]: handle is a File open on the msr device of CPU dev,
\* at file position pos.
CoreOpen(cpu_id, topo, msr) ==
    IF topo.open /= "ok" THEN Err(FromIoError(topo.open))
    ELSE IF topo.read /= "ok" THEN Err(FromIoError(topo.read))
    ELSE LET data == ReadInto([j \in 1..PACKAGE_BUF_LEN |-> NUL], topo.content,
                              Min(Len(topo.content), PACKAGE_BUF_LEN))
             package == ParsePackage(data)
         IN IF ~package.ok THEN package
            ELSE IF msr /= "ok" THEN Err(FromIoError(msr))
            ELSE Ok([dev |-> cpu_id, package |-> package.val, pos |-> {}])

----------------------------------------------------------------------------
(* Core::read *)

\* the 8 bytes of a register value, least significant first; a byte is the
\* set of its one-bits
ToLeBytes(v) == [j \in 1..SIZE_OF_U64 |-> {b \in 0..7 : (8 * (j - 1) + b) \in v}]

\* u64::from_le_bytes
FromLeBytes(data) == UNION {Shift(data[j], 8 * (j - 1)) : j \in 1..SIZE_OF_U64}

\* the register the device serves at a file offset: mem maps register
\* addresses to values, and every other offset reads as zero
MemAt(mem, offset) == IF offset \in DOMAIN mem THEN mem[offset] ELSE {}

\* handle.seek(SeekFrom::Start(value as u64)): the new file position
SeekTo(pos, value) == value

\* Core::read(value) on core = [dev, package, pos].  io = [seek, read, n, mem]:
\* the outcome of the seek and of the read ("ok" or an io::ErrorKind), the
\* number of bytes the device delivers and the device's registers.
CoreRead(core, value, io) ==
    IF io.seek /= "ok" THEN [core |-> core, res |-> Err(FromIoError(io.seek))]
    ELSE LET offset == SeekTo(core.pos, value)
         IN IF io.read /= "ok"
            THEN [core |-> [core EXCEPT !.pos = offset],
                  res |-> Err(FromIoError(io.read))]
            ELSE LET data == ReadInto([j \in 1..SIZE_OF_U64 |-> {}],
                                      ToLeBytes(MemAt(io.mem, offset)), io.n)
                 IN [core |-> [core EXCEPT !.pos = Add(offset, NatToBits(io.n))],
                     res |-> Ok(FromLeBytes(data))]

----------------------------------------------------------------------------
(* Power units, lib.rs:174-187 *)

\* (units & mask) >> n as i32
Field(units, mask, n) == BitsToNat(Shift(units \cap mask, -n))

DecodeUnits(units) ==
    [time_unit |-> HalfPowi(Field(units, AMD_TIME_UNIT_MASK, 16)),
     energy_unit |-> HalfPowi(Field(units, AMD_ENERGY_UNIT_MASK, 8)),
     power_unit |-> HalfPowi(Field(units, AMD_POWER_UNIT_MASK, 0))]

----------------------------------------------------------------------------
(* CpuPower *)

\* CpuPower::cores
Cores(power) == [j \in 1..Len(power) |-> power[j].core_power]

\* u32::max_value() = 4294967295, the initial last_package.  It is above
\* TLC's integers; -1 stands for it: like it, it is different from every
\* package id Core::open can produce (0..9999, four characters at most).
U32_MAX == -1

RECURSIVE PackagesFrom_stale(_, _, _)
\* mutant: last_package is never updated
PackagesFrom_stale(power, j, last_package) ==
    IF j > Len(power) THEN <<>>
    ELSE IF power[j].package /= last_package
         THEN <<power[j].package_power>>
              \o PackagesFrom_stale(power, j + 1, last_package)
         ELSE PackagesFrom_stale(power, j + 1, last_package)

RECURSIVE PackagesFrom(_, _, _)
\* the loop of CpuPower::packages from entry j on
PackagesFrom(power, j, last_package) ==
    IF j > Len(power) THEN <<>>
    ELSE IF power[j].package /= last_package
         THEN <<power[j].package_power>>
              \o PackagesFrom(power, j + 1, power[j].package)
         ELSE PackagesFrom(power, j + 1, last_package)

\* CpuPower::packages
Packages(power) == PackagesFrom(power, 1, U32_MAX)

----------------------------------------------------------------------------
(* State *)

VARIABLES
    pc,       \* where the caller of the library is
    i,        \* CpuInfo::new: the loop variable
    probed,   \* history: the result of every Core::open, in order
    cores,    \* CpuInfo.cores: Vec<Core>, a Core being [package, pos]
    units,    \* CpuInfo.units: <<>> before it is decoded, then <<PowerUnits>>
    unitsRaw, \* history: the register value the units were decoded from
    error,    \* the Err that new() or read() returned, "none" otherwise
    pass,     \* CpuInfo::read: "none", "start" or "end"
    k,        \* read_raw: the index of the core the iterator is at
    half,     \* read_raw closure: <<core_power>> once it is computed
    start,    \* read: the Vec<CorePower> of the first read_raw
    end,      \* read: the Vec<CorePower> of the second read_raw
    raw,      \* history: the values read in each pass: [core, dev, value, val]
    slept,    \* history: the sleep of this read() took place
    log,      \* history: the Core::read calls of this read(): [core, value, ok]
    power,    \* <<>>, or <<CpuPower.cores>> once read() returned Ok
    again,    \* history: a read() of this engine has returned Ok before
    lastRead, \* history: <<>>, then the last Core::read: <<[value, pos, io, res]>>
    tick      \* the machine: how often its energy accumulators advanced

vars == <<pc, i, probed, cores, units, unitsRaw, error, pass, k, half, start,
          end, raw, slept, log, power, again, lastRead, tick>>

readVars == <<pass, k, half, start, end, raw, slept, log, power, again>>

NoRead == <<>>

Init ==
    /\ pc = "new_loop"
    /\ i = 0
    /\ probed = <<>>
    /\ cores = <<>>
    /\ units = <<>>
    /\ unitsRaw = <<>>
    /\ error = "none"
    /\ pass = "none"
    /\ k = 0
    /\ half = <<>>
    /\ start = <<>>
    /\ end = <<>>
    /\ raw = [start |-> <<>>, end |-> <<>>]
    /\ slept = FALSE
    /\ log = <<>>
    /\ power = <<>>
    /\ again = FALSE
    /\ lastRead = NoRead
    /\ tick = 0

----------------------------------------------------------------------------
(* CpuInfo::new *)

\* mutant: the check for an empty vector is missing
AfterLoop_unchecked(cs) == [pc |-> "new_units", error |-> "none"]

\* lib.rs:170-172, reached when the loop is left
AfterLoop(cs) ==
    IF cs = <<>>
    THEN [pc |-> "new_failed", error |-> "NoCores"]
    ELSE [pc |-> "new_units", error |-> "none"]

\* mutant: CoreNotFound skips the CPU (continue) instead of leaving the loop
LoopStep_skip(n, cs, r) ==
    IF r.ok
    THEN LET pushed == Append(cs, r.val)
         IN IF n + 1 < MAX_CPUS
            THEN [pc |-> "new_loop", i |-> n + 1, cores |-> pushed, error |-> "none"]
            ELSE [i |-> n + 1, cores |-> pushed] @@ AfterLoop(pushed)
    ELSE IF r.err = "CoreNotFound"
         THEN IF n + 1 < MAX_CPUS
              THEN [pc |-> "new_loop", i |-> n + 1, cores |-> cs, error |-> "none"]
              ELSE [i |-> n + 1, cores |-> cs] @@ AfterLoop(cs)
         ELSE [pc |-> "new_failed", i |-> n, cores |-> cs, error |-> r.err]

\* one iteration of the loop of lib.rs:162-168 on the result r of
\* Core::open(n): the next [pc, i, cores, error]
LoopStep(n, cs, r) ==
    IF r.ok
    THEN LET pushed == Append(cs, r.val)
         IN IF n + 1 < MAX_CPUS
            THEN [pc |-> "new_loop", i |-> n + 1, cores |-> pushed, error |-> "none"]
            ELSE [i |-> n + 1, cores |-> pushed] @@ AfterLoop(pushed)
    ELSE IF r.err = "CoreNotFound"
         THEN [i |-> n, cores |-> cs] @@ AfterLoop(cs)
         ELSE [pc |-> "new_failed", i |-> n, cores |-> cs, error |-> r.err]

\* Core::open(i) and the loop's match on it
Probe(Topos, Msrs) ==
    /\ pc = "new_loop"
    /\ i < MAX_CPUS
    /\ \E topo \in Topos, msr \in Msrs :
       \E r \in {CoreOpen(i, topo, msr)} :
       \E nxt \in {LoopStep(i, cores, r)} :
             /\ probed' = Append(probed, [cpu |-> i, topo |-> topo, msr |-> msr, res |-> r])
             /\ pc' = nxt.pc
             /\ i' = nxt.i
             /\ cores' = nxt.cores
             /\ error' = nxt.error
    /\ UNCHANGED <<units, unitsRaw, lastRead, tick>>
    /\ UNCHANGED readVars

\* lib.rs:174-189: cores[0].read(MsrValue::PowerUnit)? and the decoding
NewUnits(Ios) ==
    /\ pc = "new_units"
    /\ cores /= <<>>
    /\ \E io \in Ios :
       \E r \in {CoreRead(cores[1], PowerUnit, io)} :
             /\ cores' = [cores EXCEPT ![1] = r.core]
             /\ lastRead' = <<[value |-> PowerUnit, pos |-> cores[1].pos, io |-> io, res |-> r.res]>>
             /\ IF r.res.ok
                THEN /\ units' = <<DecodeUnits(r.res.val)>>
                     /\ unitsRaw' = <<r.res.val>>
                     /\ pc' = "ready"
                     /\ error' = "none"
                ELSE /\ UNCHANGED <<units, unitsRaw>>
                     /\ pc' = "new_failed"
                     /\ error' = r.res.err
    /\ UNCHANGED <<i, probed, tick>>
    /\ UNCHANGED readVars

----------------------------------------------------------------------------
(* CpuInfo::read *)

\* the caller calls cpu.read()
CallRead ==
    /\ pc \in {"ready", "read_done"}
    /\ again' = (pc = "read_done")
    /\ pc' = "read_raw"
    /\ pass' = "start"
    /\ k' = 1
    /\ half' = <<>>
    /\ start' = <<>>
    /\ end' = <<>>
    /\ raw' = [start |-> <<>>, end |-> <<>>]
    /\ slept' = FALSE
    /\ log' = <<>>
    /\ power' = <<>>
    /\ UNCHANGED <<i, probed, cores, units, unitsRaw, error, lastRead, tick>>

\* mutant: scaled by the power unit
Scaled_power_unit(val, u) == FMul(U64AsF64(val), u.power_unit)

\* core.read(..)? as f64 * self.units.energy_unit
Scaled(val, u) == FMul(U64AsF64(val), u.energy_unit)

\* mutant: start - end
ZipEntry_swapped(s, e) ==
    [core_power |-> FMul(FSub(s.core_power, e.core_power), F100),
     package_power |-> FMul(FSub(s.package_power, e.package_power), F100),
     package |-> s.package]

\* the closure of lib.rs:203-207
ZipEntry(s, e) ==
    [core_power |-> FMul(FSub(e.core_power, s.core_power), F100),
     package_power |-> FMul(FSub(e.package_power, s.package_power), F100),
     package |-> s.package]

\* mutant: the end vector is zipped back to front
ReadZip_reversed(s, e) ==
    [j \in 1..Min(Len(s), Len(e)) |-> ZipEntry(s[j], e[Len(e) + 1 - j])]

\* start.into_iter().zip(end.into_iter()).map(..).collect()
ReadZip(s, e) == [j \in 1..Min(Len(s), Len(e)) |-> ZipEntry(s[j], e[j])]

\* mutant: the error is noted and the register is read again
OnReadErr_retry(f, e) == [f EXCEPT !.error = e]

\* The frame of a read() call is f = [pc, pass, k, half, start, end, power,
\* error].  A `?` of read_raw's closure on Err(e): collect() stops the
\* iterator, read_raw returns Err(e) and so does read(); the vectors built
\* so far are dropped.
OnReadErr(f, e) ==
    [f EXCEPT !.pc = "read_failed", !.error = e, !.half = <<>>,
              !.start = <<>>, !.end = <<>>]

\* the end of a read_raw: after the first, read() goes on to the sleep;
\* after the second it zips the two vectors and returns
AfterPass(f) ==
    IF f.pass = "start"
    THEN [f EXCEPT !.pc = "sleep"]
    ELSE [f EXCEPT !.pc = "read_done", !.power = <<ReadZip(f.start, f.end)>>]

\* read_raw's closure after a Core::read returned Ok(val): the first read
\* of a core gives core_power, the second package_power and the CorePower
\* that collect() pushes; n is the number of cores, package the core's
\* package and u the units
OnReadOk(f, val, package, n, u) ==
    IF f.half = <<>>
    THEN [f EXCEPT !.half = <<Scaled(val, u)>>]
    ELSE LET sample == [core_power |-> f.half[1],
                        package_power |-> Scaled(val, u),
                        package |-> package]
             pushed == IF f.pass = "start"
                       THEN [f EXCEPT !.half = <<>>, !.start = Append(f.start, sample)]
                       ELSE [f EXCEPT !.half = <<>>, !.end = Append(f.end, sample)]
         IN IF f.k < n THEN [pushed EXCEPT !.k = f.k + 1] ELSE AfterPass(pushed)

\* one Core::read of read_raw (lib.rs:217 or 219) and what follows it
ReadRaw(Ios) ==
    /\ pc = "read_raw"
    /\ \E io \in Ios, value \in {IF half = <<>> THEN CoreEnergy ELSE PackageEnergy} :
       \E r \in {CoreRead(cores[k], value, io)} :
       \E f \in {[pc |-> pc, pass |-> pass, k |-> k, half |-> half,
                  start |-> start, end |-> end, power |-> power, error |-> error]} :
       \E nxt \in {IF r.res.ok
                   THEN OnReadOk(f, r.res.val, cores[k].package, Len(cores), units[1])
                   ELSE OnReadErr(f, r.res.err)} :
             /\ cores' = [cores EXCEPT ![k] = r.core]
             /\ lastRead' = <<[value |-> value, pos |-> cores[k].pos, io |-> io, res |-> r.res]>>
             /\ log' = Append(log, [core |-> k, value |-> value, pass |-> pass,
                                    ok |-> r.res.ok])
             /\ raw' = IF nxt.pc = "read_failed" THEN [start |-> <<>>, end |-> <<>>]
                       ELSE IF ~r.res.ok THEN raw
                       ELSE [raw EXCEPT ![pass] =
                                 Append(@, [core |-> k, dev |-> cores[k].dev,
                                            value |-> value, val |-> r.res.val])]
             /\ pc' = nxt.pc
             /\ pass' = nxt.pass
             /\ k' = nxt.k
             /\ half' = nxt.half
             /\ start' = nxt.start
             /\ end' = nxt.end
             /\ power' = nxt.power
             /\ error' = nxt.error
    /\ UNCHANGED <<i, probed, units, unitsRaw, slept, again, tick>>

\* sleep(Duration::from_millis(10)), then the second read_raw begins
Sleep ==
    /\ pc = "sleep"
    /\ slept' = TRUE
    /\ pc' = "read_raw"
    /\ pass' = "end"
    /\ k' = 1
    /\ UNCHANGED <<i, probed, cores, units, unitsRaw, error, half, start, end,
                   raw, log, power, again, lastRead, tick>>

---------------------------------------------------------------------------------------------------------------------------------------------------
(* The machine: what its files answer *)

IoKinds == {"NotFound", "PermissionDenied", "Other"}

TopoOk(content) == [open |-> "ok", read |-> "ok", content |-> content]

TopoFail(e) == [open |-> e, read |-> "ok", content |-> <<>>]

IoOk(mem, n) == [seek |-> "ok", read |-> "ok", n |-> n, mem |-> mem]

\* a failing seek, a failing read
IoFails ==
    {[seek |-> "Other", read |-> "ok", n |-> 0, mem |-> <<>>]}
    \cup {[seek |-> "ok", read |-> e, n |-> 0, mem |-> <<>>] : e \in IoKinds}

\* 0xA2E19, a value of the PowerUnit register: time 10, energy 14, power 9
UnitsA2E19 == {19, 17, 13, 11, 10, 9, 4, 3, 0}

\* how often the accumulators of the machine advance
MaxTick == 1

\* the registers of CPU dev after t advances: every CPU has its own
\* values, and they grow with t
HwRegs(dev, t) ==
    (PowerUnit :> UnitsA2E19)
    @@ (CoreEnergy :> NatToBits(100 * (dev + 1) + 3 * (dev + 1) * t))
    @@ (PackageEnergy :> NatToBits(1000 * (dev + 1) + 7 * (dev + 1) * t))

\* energy is consumed while read() runs
Tick ==
    /\ pc \in {"read_raw", "sleep"}
    /\ tick < MaxTick
    /\ tick' = tick + 1
    /\ UNCHANGED <<pc, i, probed, cores, units, unitsRaw, error, pass, k, half,
                   start, end, raw, slept, log, power, again, lastRead>>

----------------------------------------------------------------------------
(* Spec: a machine with any number of CPUs on two packages, whose files may
   fail in every way at every access *)

\* topology attributes: package 0, package 1, one that does not parse; a
\* missing, an unreadable and a failing attribute
MainTopos ==
    {TopoOk(<<"0", "\n">>), TopoOk(<<"1", "\n">>), TopoOk(<<"x", "\n">>)}
    \cup {TopoFail(e) : e \in IoKinds}
    \cup {[open |-> "ok", read |-> "Other", content |-> <<>>]}

MainMsrs == {"ok", "NotFound", "PermissionDenied"}

ProbeMain == Probe(MainTopos, MainMsrs)

NewUnitsMain == NewUnits({IoOk(HwRegs(cores[1].dev, tick), SIZE_OF_U64)} \cup IoFails)

ReadRawMain == ReadRaw({IoOk(HwRegs(cores[k].dev, tick), SIZE_OF_U64)} \cup IoFails)

Next == ProbeMain \/ NewUnitsMain \/ CallRead \/ ReadRawMain \/ Sleep \/ Tick

Spec == Init /\ [][Next]_vars

----------------------------------------------------------------------------
(* SpecArith: a machine with two CPUs and no failing file, whose
   accumulators hold any of a few 64-bit values at every read, among them
   values that no f64 represents *)

\* per CPU, the values its accumulators may show:
\* CPU 0: 100, 2^53 + 1, 2^53 + 3, 2^64 - 1; CPU 1: 2^53, 2^53 + 1
ArithValues == <<{NatToBits(100), {53, 0}, {53, 1, 0}, 0..63}, {{53}, {53, 0}}>>

\* power-unit registers: 0xA2E19 (energy exponent 14) and 0x1F00 (31)
ArithUnits == {UnitsA2E19, {8, 9, 10, 11, 12}}

Regs(v) == [a \in {PowerUnit, CoreEnergy, PackageEnergy} |-> v]

ProbeArith ==
    Probe(IF i < Len(ArithValues)
          THEN {TopoOk(<<Digits[i + 1], "\n">>)}
          ELSE {TopoFail("NotFound")},
          {"ok"})

NewUnitsArith == NewUnits({IoOk(Regs(v), SIZE_OF_U64) : v \in ArithUnits})

CallReadFirst == pc = "ready" /\ CallRead

ReadRawArith ==
    ReadRaw({IoOk(Regs(v), SIZE_OF_U64) : v \in ArithValues[cores[k].dev + 1]})

NextArith == ProbeArith \/ NewUnitsArith \/ CallReadFirst \/ ReadRawArith \/ Sleep

SpecArith == Init /\ [][NextArith]_vars

----------------------------------------------------------------------------
(* SpecDecode: CpuInfo::new on a machine with one CPU whose power-unit
   register holds any value of the three fields, with the other bits all
   clear or all set *)

\* bits 16..19, 8..12 and 0..3
FieldBits == (16..19) \cup (8..12) \cup (0..3)

DecodeValues ==
    {f \cup o : f \in SUBSET FieldBits, o \in {{}, (0..63) \ FieldBits}}

ProbeDecode ==
    Probe(IF i = 0 THEN {TopoOk(<<"0", "\n">>)} ELSE {TopoFail("NotFound")}, {"ok"})

NewUnitsDecode == NewUnits({IoOk(Regs(v), SIZE_OF_U64) : v \in DecodeValues})

NextDecode == ProbeDecode \/ NewUnitsDecode

SpecDecode == Init /\ [][NextDecode]_vars

----------------------------------------------------------------------------
(* SpecOpen: Core::open(0) on every topology attribute of up to MaxContent
   characters *)

MaxContent == 5

Alphabet == {"1", "2", "\n", " ", NUL, "x", BADBYTE}

Contents == UNION {[1..n -> Alphabet] : n \in 0..MaxContent}

ProbeOpen ==
    /\ i = 0
    /\ Probe({TopoOk(c) : c \in Contents}, {"ok", "PermissionDenied"})

NextOpen == ProbeOpen

SpecOpen == Init /\ [][NextOpen]_vars

----------------------------------------------------------------------------
(* SpecCore: Core::open(0), then any sequence of Core::read calls on the
   Core, on a device that holds any of a few values in each register,
   delivers any number of bytes up to the eight asked for, or fails *)

MsrValues == {PowerUnit, CoreEnergy, PackageEnergy}

\* the registers of two devices: no two registers of one hold the same value
CoreMems ==
    {(PowerUnit :> {32, 0}) @@ (CoreEnergy :> {63, 7}) @@ (PackageEnergy :> {40}),
     (PowerUnit :> {63, 7}) @@ (CoreEnergy :> {40}) @@ (PackageEnergy :> {32, 0})}

CoreIos ==
    {IoOk(mem, n) : mem \in CoreMems, n \in {0, 4, 7, SIZE_OF_U64}} \cup IoFails

ProbeCore == i = 0 /\ Probe({TopoOk(<<"0", "\n">>)}, {"ok"})

\* a caller of Core::read
CoreReadCall ==
    /\ cores /= <<>>
    /\ \E value \in MsrValues, io \in CoreIos :
       \E r \in {CoreRead(cores[1], value, io)} :
             /\ cores' = [cores EXCEPT ![1] = r.core]
             /\ lastRead' = <<[value |-> value, pos |-> cores[1].pos, io |-> io,
                              res |-> r.res]>>
    /\ UNCHANGED <<pc, i, probed, units, unitsRaw, error, tick>>
    /\ UNCHANGED readVars

NextCore == ProbeCore \/ CoreReadCall

SpecCore == Init /\ [][NextCore]_vars

----------------------------------------------------------------------------
(* The claims *)

\* the value read from register `value` of the j-th core in pass p
RawOf(p, j, value) ==
    LET m == CHOOSE m \in 1..Len(raw[p]) :
                 raw[p][m].core = j /\ raw[p][m].value = value
    IN raw[p][m].val

\* (end - start) * energy_unit * 100, in f64, of two raw values
ExpectedPower(s, e, u) == FMul(FMul(FSub(U64AsF64(e), U64AsF64(s)), u), F100)

Returned == IF power = <<>> THEN <<>> ELSE power[1]

\* C1: in every snapshot read() returns, entry i carries the package of
\* core i and, for the core and for the package register alike, the f64
\* value of (end - start) * energy_unit * 100, start and end being the
\* values read from core i in the first and in the second pass.
C1_PowerIsScaledDelta ==
    pc = "read_done" =>
        /\ Len(Returned) = Len(cores)
        /\ \A j \in 1..Len(cores) :
              /\ Returned[j].core_power =
                    ExpectedPower(RawOf("start", j, CoreEnergy),
                                  RawOf("end", j, CoreEnergy), units[1].energy_unit)
              /\ Returned[j].package_power =
                    ExpectedPower(RawOf("start", j, PackageEnergy),
                                  RawOf("end", j, PackageEnergy), units[1].energy_unit)
              /\ Returned[j].package = cores[j].package

\* a snapshot of two cores on different packages, computed from values that
\* f64 rounds (2^53 + 3 up, 2^64 - 1 up, 2^53 + 1 down)
C1_Witness ==
    /\ pc = "read_done"
    /\ Len(cores) = 2
    /\ cores[1].package /= cores[2].package
    /\ RawOf("start", 1, CoreEnergy) = {53, 1, 0}
    /\ RawOf("end", 1, CoreEnergy) = 0..63
    /\ RawOf("start", 1, PackageEnergy) = NatToBits(100)
    /\ RawOf("end", 1, PackageEnergy) = {53, 0}
    /\ RawOf("start", 2, CoreEnergy) = {53, 0}
    /\ RawOf("end", 2, CoreEnergy) = {53}
    /\ Returned[1].core_power /= Returned[2].core_power

\* C4: when both registers of a core read strictly more in the second pass
\* than in the first, the core's two powers are not negative.
C4_IncreaseGivesNonNegativePower ==
    pc = "read_done" =>
        \A j \in 1..Len(cores) :
            ( /\ Less(RawOf("start", j, CoreEnergy), RawOf("end", j, CoreEnergy))
              /\ Less(RawOf("start", j, PackageEnergy), RawOf("end", j, PackageEnergy)) )
            => /\ ~FLess(Returned[j].core_power, FZero)
               /\ ~FLess(Returned[j].package_power, FZero)

\* core 1 rose from 100 to 2^64 - 1; core 2 rose from 2^53 to 2^53 + 1,
\* which f64 cannot tell apart, and shows no power
C4_Witness ==
    /\ pc = "read_done"
    /\ RawOf("start", 1, CoreEnergy) = NatToBits(100)
    /\ RawOf("end", 1, CoreEnergy) = 0..63
    /\ RawOf("start", 1, PackageEnergy) = {53, 0}
    /\ RawOf("end", 1, PackageEnergy) = {53, 1, 0}
    /\ RawOf("start", 2, CoreEnergy) = {53}
    /\ RawOf("end", 2, CoreEnergy) = {53, 0}
    /\ RawOf("start", 2, PackageEnergy) = {53}
    /\ RawOf("end", 2, PackageEnergy) = {53, 0}
    /\ FLess(FZero, Returned[1].core_power)
    /\ Returned[2].core_power = FZero

\* C2: every snapshot read() returns, at the first call and at every later
\* one, has one entry per core, entry j made from the registers of the j-th
\* core, which is the core of CPU j - 1, read in that order in both passes;
\* cores() gives the core_power of these entries in that order.
C2_OneEntryPerCoreInOrder ==
    pc = "read_done" =>
        /\ Len(Returned) = Len(cores)
        /\ Len(Cores(Returned)) = Len(cores)
        /\ \A p \in {"start", "end"} :
              /\ Len(raw[p]) = 2 * Len(cores)
              /\ \A j \in 1..Len(cores) :
                    /\ raw[p][2 * j - 1].core = j
                    /\ raw[p][2 * j - 1].value = CoreEnergy
                    /\ raw[p][2 * j].core = j
                    /\ raw[p][2 * j].value = PackageEnergy
                    /\ \A m \in {2 * j - 1, 2 * j} :
                          /\ raw[p][m].dev = j - 1
                          /\ \E t \in 0..MaxTick :
                                raw[p][m].val = HwRegs(j - 1, t)[raw[p][m].value]
        /\ \A j \in 1..Len(cores) :
              /\ cores[j].dev = j - 1
              /\ Returned[j].package = cores[j].package
              /\ Cores(Returned)[j] = Returned[j].core_power
              /\ Cores(Returned)[j] =
                    ExpectedPower(raw.start[2 * j - 1].val, raw.end[2 * j - 1].val,
                                  units[1].energy_unit)

\* a later read() of an engine of three cores returned three different,
\* non-zero core powers
C2_Witness ==
    /\ pc = "read_done"
    /\ again
    /\ Len(cores) = 3
    /\ Len(Cores(Returned)) = 3
    /\ \A j \in 1..3 : Cores(Returned)[j] /= FZero
    /\ Cores(Returned)[1] /= Cores(Returned)[2]
    /\ Cores(Returned)[2] /= Cores(Returned)[3]

\* C3: a Core::read that fails during read() is the last Core::read of the
\* call; read() returns its error and no snapshot; when it failed in the
\* first pass, neither the sleep nor any read of the second pass took place.
C3_ReadFailureAborts ==
    /\ \A m \in 1..Len(log) :
          ~log[m].ok =>
             /\ m = Len(log)
             /\ pc = "read_failed"
             /\ error = lastRead[1].res.err
             /\ power = <<>>
             /\ log[m].pass = "start" =>
                   /\ ~slept
                   /\ \A q \in 1..Len(log) : log[q].pass = "start"
    /\ pc = "read_failed" => log /= <<>> /\ ~log[Len(log)].ok
    /\ pc = "read_done" => error = "none" /\ \A m \in 1..Len(log) : log[m].ok

\* the package register of the second of three cores failed in the first pass
C3_Witness ==
    /\ pc = "read_failed"
    /\ Len(cores) = 3
    /\ Len(log) = 4
    /\ log[4].pass = "start"
    /\ ~slept
    /\ error = "PermissionDenied"

\* C5: new() opens the CPUs 0, 1, 2, .. in this order, MAX_CPUS of them at
\* most, and none after the first that fails; when that one failed with
\* CoreNotFound the loop is left with the cores of exactly the CPUs below
\* it, and when it failed otherwise new() returns that error.
C5_EnumerationStopsAtFirstFailure ==
    /\ Len(probed) <= MAX_CPUS
    /\ \A j \in 1..Len(probed) : probed[j].cpu = j - 1
    /\ \A j \in 1..(Len(probed) - 1) : probed[j].res.ok
    /\ Len(cores) = Cardinality({j \in 1..Len(probed) : probed[j].res.ok})
    /\ \A j \in 1..Len(cores) :
          /\ cores[j].dev = j - 1
          /\ cores[j].package = probed[j].res.val.package
    /\ pc = "new_loop" => i = Len(probed) /\ i < MAX_CPUS
    /\ (probed /= <<>> /\ ~probed[Len(probed)].res.ok) =>
          IF probed[Len(probed)].res.err = "CoreNotFound"
          THEN /\ pc /= "new_loop"
               /\ Len(cores) = Len(probed) - 1
               /\ pc = "new_failed" =>
                     \/ cores = <<>> /\ error = "NoCores"
                     \/ lastRead /= <<>> /\ lastRead[1].value = PowerUnit
                        /\ ~lastRead[1].res.ok
                        /\ error = lastRead[1].res.err
          ELSE /\ pc = "new_failed"
               /\ error = probed[Len(probed)].res.err
    /\ (Len(probed) = MAX_CPUS /\ probed[MAX_CPUS].res.ok) => pc /= "new_loop"

\* CPU 2 was not found: the engine has the cores of CPU 0 and CPU 1
C5_Witness ==
    /\ pc = "ready"
    /\ Len(probed) = 3
    /\ ~probed[3].res.ok
    /\ probed[3].res.err = "CoreNotFound"
    /\ Len(cores) = 2

NewReturned == pc \notin {"new_loop"}

\* C6 as stated: whenever new() has created no core it fails with NoCores,
\* and no engine has an empty set of cores.
C6_NoCoresWheneverZeroCores ==
    /\ (NewReturned /\ cores = <<>>) => (pc = "new_failed" /\ error = "NoCores")
    /\ pc \in {"ready", "read_raw", "sleep", "read_done", "read_failed"} => cores /= <<>>

\* C6, amended: when CPU 0 is not found, new() fails with NoCores; when
\* Core::open(0) fails otherwise, new() fails with that error; and no engine
\* has an empty set of cores.
C6_NoCoresWhenNoCpuFound ==
    /\ (NewReturned /\ cores = <<>>) =>
          /\ pc = "new_failed"
          /\ Len(probed) = 1
          /\ ~probed[1].res.ok
          /\ error = IF probed[1].res.err = "CoreNotFound"
                     THEN "NoCores"
                     ELSE probed[1].res.err
    /\ pc \in {"ready", "read_raw", "sleep", "read_done", "read_failed"} => cores /= <<>>

\* CPU 0 has no topology attribute
C6_Witness ==
    /\ pc = "new_failed"
    /\ error = "NoCores"
    /\ cores = <<>>
    /\ Len(probed) = 1
    /\ probed[1].topo.open = "NotFound"

RECURSIVE Ascending(_)
Ascending(S) == IF S = {} THEN <<>> ELSE <<MinOf(S)>> \o Ascending(S \ {MinOf(S)})

\* the entries that start a run of equal package ids
RunStarts(p) == {j \in 1..Len(p) : j = 1 \/ p[j].package /= p[j - 1].package}

\* C7: packages() of a returned snapshot gives, in order, the package_power
\* of the entries whose package differs from the entry before, the first
\* entry among them: one value per run of equal package ids, at least one,
\* at most as many as cores() gives, and as many exactly when no two
\* neighbours share a package.
C7_PackagesOnePerRun ==
    pc = "read_done" =>
        LET p == Returned
            at == Ascending(RunStarts(p))
        IN /\ Packages(p) = [m \in 1..Len(at) |-> p[at[m]].package_power]
           /\ 1 \in RunStarts(p)
           /\ Len(Packages(p)) >= 1
           /\ Len(Packages(p)) <= Len(Cores(p))
           /\ Len(Packages(p)) = Len(Cores(p))
              <=> \A j \in 2..Len(p) : p[j].package /= p[j - 1].package

\* packages 0, 0, 1: two values, those of the first and of the third entry
C7_Witness ==
    /\ pc = "read_done"
    /\ Len(Returned) = 3
    /\ Returned[1].package = 0
    /\ Returned[2].package = 0
    /\ Returned[3].package = 1
    /\ Returned[1].package_power /= Returned[2].package_power
    /\ Returned[2].package_power /= Returned[3].package_power
    /\ Packages(Returned) = <<Returned[1].package_power, Returned[3].package_power>>

\* the number whose binary digits are the bits lo..hi of v
BitsValue(v, lo, hi) ==
    CHOOSE e \in 0..(2 ^ (hi - lo + 1) - 1) :
        \A b \in 0..(hi - lo) : ((e \div (2 ^ b)) % 2 = 1) <=> ((lo + b) \in v)

TwoToMinus(e) == [neg |-> FALSE, mag |-> {-e}]

\* C8: the units new() decodes from a power-unit register value are 2 to
\* the minus bits 16..19 (time), bits 8..12 (energy) and bits 0..3 (power)
\* of the value; each is above 0 and at most 1, and no other bit of the
\* value changes them.
C8_UnitsDecodedFromFields ==
    pc = "ready" =>
        LET v == unitsRaw[1]
            u == units[1]
        IN /\ u.time_unit = TwoToMinus(BitsValue(v, 16, 19))
           /\ u.energy_unit = TwoToMinus(BitsValue(v, 8, 12))
           /\ u.power_unit = TwoToMinus(BitsValue(v, 0, 3))
           /\ \A x \in {u.time_unit, u.energy_unit, u.power_unit} :
                 FLess(FZero, x) /\ ~FLess(FOne, x)
           /\ u = DecodeUnits(v \cap FieldBits)

\* all 64 bits set: the exponents are 15, 31 and 15
C8_Witness ==
    /\ pc = "ready"
    /\ unitsRaw = <<0..63>>
    /\ units[1].energy_unit = TwoToMinus(31)
    /\ units[1].time_unit = TwoToMinus(15)

\* "trims trailing NUL padding and whitespace"
ClaimTrim(c) == Trim(TrimEndMatches(c, NUL))

CleanInteger(t) == t /= <<>> /\ \A j \in 1..Len(t) : IsDigit(t[j])

\* C9 as stated: Core::open on a topology attribute whose content, trimmed,
\* is a decimal integer makes a core of that package (when the msr device
\* opens); on every other content it fails with InvalidPackage.
C9_PackageIsTrimmedContent ==
    \A j \in 1..Len(probed) :
        LET c == probed[j].topo.content
            t == ClaimTrim(c)
        IN (probed[j].topo.open = "ok" /\ probed[j].topo.read = "ok") =>
              IF CleanInteger(t) /\ IsUtf8(c)
              THEN IF probed[j].msr = "ok"
                   THEN probed[j].res.ok /\ probed[j].res.val.package = DigitsValue(t)
                   ELSE ~probed[j].res.ok
              ELSE probed[j].res = Err("InvalidPackage")

\* C10 as stated: a Core::read that returns Ok returns the register the
\* device holds at the address asked for, all eight bytes of it.
C10_ReadReturnsTheRegister ==
    (lastRead /= <<>> /\ lastRead[1].res.ok) =>
        lastRead[1].res.val = MemAt(lastRead[1].io.mem, lastRead[1].value)
====
